---- MODULE Spec2Model ----
(***************************************************************************)
(* Model of the deep_research bot's tool handlers                          *)
(* (src/deep_research_bot.py, deep_research_main_loop).                    *)
(*                                                                         *)
(* The handlers toolcall_web_research and toolcall_read_article are        *)
(* coroutines without a single await: once the event loop enters one it    *)
(* runs to its return, so at most one call is active at a time (pc).       *)
(* Each provider call is split into its start and its completion so that   *)
(* what is in flight at a given moment is visible in the state.            *)
(***************************************************************************)
EXTENDS Integers, Sequences, FiniteSets, TLC

\* ------------------------------------------------------------------ bounds
MaxCalls == 2        \* tool calls made in one run of the bot
MaxLen == 3          \* every query/url list up to this length is tried
MaxThrows == 2       \* collaborator calls that throw within one tool call
MaxDepth == 2        \* configured max_research_depth values 1..MaxDepth
MaxMessages == 2     \* messages handed to updated_message_in_db in one run

\* ------------------------------------------------------- program constants
MaxQueriesPerCall == 10      \* len(queries) > 10
MaxUrlsPerCall == 15         \* len(urls) > 15
DefaultMaxResults == 5       \* .get("max_results_per_query", 5)
DefaultResearchDepth == 10   \* bs_default of max_research_depth
TextCap == 8000              \* article.text[:8000]
SummaryCap == 800            \* article.text[:800]

\* ------------------------------------------------------------ input domains
Threads == {"ft1", "ft2"}
QueryTexts == {"q1", "q2"}
UrlTexts == {"u1", "u2"}
None == "None"

Min(a, b) == IF a < b THEN a ELSE b

\* lists of the given length over S
SeqsOfLen(S, n) == [1..n -> S]

\* the list of length n that alternates the two texts a, b
Alternating(a, b, n) == [i \in 1..n |-> IF i % 2 = 1 THEN a ELSE b]

\* the lists a caller passes as "queries": every list up to MaxLen, and one
\* list at the limit and one just above it
QueryLists ==
    (UNION {SeqsOfLen(QueryTexts, n) : n \in 0..MaxLen})
        \cup {Alternating("q1", "q2", MaxQueriesPerCall),
              Alternating("q1", "q2", MaxQueriesPerCall + 1)}

UrlLists ==
    (UNION {SeqsOfLen(UrlTexts, n) : n \in 0..MaxLen})
        \cup {Alternating("u1", "u2", MaxUrlsPerCall),
              Alternating("u1", "u2", MaxUrlsPerCall + 1)}

\* the persona setup after official_setup_mixing_procedure: the schema's
\* defaults, with max_research_depth possibly overridden by the user
Setups ==
    [research_language : {"en"},
     date_range : {None},
     max_research_depth : (1..MaxDepth) \cup {DefaultResearchDepth}]

\* setups that differ in the language and the default date range
LocaleSetups ==
    [research_language : {None, "", "en", "es"},
     date_range : {None, "any", "last_week", "last_month", "last_year"},
     max_research_depth : {DefaultResearchDepth}]

\* the date_filter argument: null, the four documented values, and strings
\* outside them
DateFilters ==
    {None, "", "any", "last_week", "last_month", "last_year", "yesterday"}

\* the max_results_per_query argument
MaxResultsChoices == {1, DefaultMaxResults}

\* messages of the exceptions the collaborators raise
ErrorMessages == {"403 Forbidden"}

VARIABLES
    setup,                 \* persona setup (read-only for the handlers)
    research_start_times,  \* dict ft_id -> time of first web_research
    now,                   \* time.time()
    budget_used,           \* per thread: queries admitted to the search phase
    budget_before,         \* budget_used of the caller's thread at call entry
    pc,                    \* position of the active tool call, or "idle"
    tool,                  \* name of the tool whose handler is active
    fcall_ft_id,           \* toolcall.fcall_ft_id of the active call
    queries,               \* web_research: model_produced_args["queries"]
    max_results,           \* web_research: max_results_per_query
    date_filter,           \* web_research: date_filter
    all_results,           \* web_research: all_results
    inflight,              \* indexes of the items whose collaborator call runs
    threw,                 \* indexes of the items whose collaborator call raised
    ddgs_calls,            \* ddgs.text calls made by the active call
    urls,                  \* read_article: model_produced_args["urls"]
    results,               \* read_article: results
    article_calls,         \* Article(url) downloads started by the active call
    response,              \* what the active call returns to the host
    store,                 \* policy documents: path -> document written
    path,                  \* create_research_report: model_produced_args["path"]
    report,                \* create_research_report: model_produced_args["report"]
    research_report_doc,   \* create_research_report: research_report_doc
    pdoc_calls,            \* pdoc_create calls made by the active call
    dphase,                \* delegated fetch: phase of the parent call
    durls,                 \* delegated fetch: the urls of the call
    children,              \* delegated fetch: status of the child of each url
    cancel_marked,         \* delegated fetch: children marked for cancellation
    canceled,              \* delegated fetch: the host canceled the parent
    resumed,               \* delegated fetch: times the parent was resumed
    aggregated,            \* delegated fetch: the list handed to the parent
    msg,                   \* updated_message_in_db: the message being handled
    thread,                \* updated_message_in_db: rcx.latest_threads.get(...)
    hpc,                   \* position of the active message handler, or "idle"
    posted,                \* the active message handler called bot_post_text
    slack_posts,           \* bot_post_text calls made so far
    logged,                \* exceptions the message handler caught and logged
    handled                \* messages handed to updated_message_in_db so far

vars == <<setup, research_start_times, now, budget_used, budget_before, pc,
          tool, fcall_ft_id, queries, max_results, date_filter, all_results,
          inflight, threw, ddgs_calls, urls, results, article_calls, response,
          store, path, report, research_report_doc, pdoc_calls,
          dphase, durls, children, cancel_marked, canceled, resumed,
          aggregated, msg, thread, hpc, posted, slack_posts, logged,
          handled>>

\* what outlives a tool call, the arguments of the active call, and the
\* locals of the two handlers
persistent == <<setup, research_start_times, now, budget_used>>
toolcall == <<tool, fcall_ft_id>>
searchArgs == <<queries, max_results, date_filter>>
searchLocals == <<all_results, ddgs_calls>>
fetchLocals == <<results, article_calls>>
reportLocals == <<path, report, research_report_doc, pdoc_calls>>
delegated == <<dphase, durls, children, cancel_marked, canceled, resumed,
               aggregated>>
notifier == <<msg, thread, hpc, posted, slack_posts, logged, handled>>

\* a return value: its kind, the count and the exception text it quotes,
\* its fixed text, and the list it serialises
NoResponse ==
    [kind |-> "none", n |-> 0, message |-> "", detail |-> "", body |-> <<>>]

\* no message is being handled, and a thread missing from latest_threads
NoMessage ==
    [ftm_role |-> None, ftm_content |-> None, ftm_tool_calls |-> <<>>,
     ftm_ft_id |-> None]
NoThread == [known |-> FALSE, ft_app_searchable |-> ""]

\* the state of the main loop when it starts serving events, the setup apart
Started ==
    /\ research_start_times = <<>>
    /\ now = 0
    /\ budget_used = [t \in Threads |-> 0]
    /\ budget_before = 0
    /\ pc = "idle"
    /\ tool = None
    /\ fcall_ft_id = None
    /\ queries = <<>>
    /\ max_results = DefaultMaxResults
    /\ date_filter = None
    /\ all_results = <<>>
    /\ inflight = {}
    /\ threw = {}
    /\ ddgs_calls = <<>>
    /\ urls = <<>>
    /\ results = <<>>
    /\ article_calls = <<>>
    /\ response = NoResponse
    /\ store = <<>>
    /\ path = None
    /\ report = <<>>
    /\ research_report_doc = <<>>
    /\ pdoc_calls = <<>>
    /\ dphase = "none"
    /\ durls = <<>>
    /\ children = <<>>
    /\ cancel_marked = {}
    /\ canceled = FALSE
    /\ resumed = 0
    /\ aggregated = <<>>
    /\ msg = NoMessage
    /\ thread = NoThread
    /\ hpc = "idle"
    /\ posted = FALSE
    /\ slack_posts = <<>>
    /\ logged = <<>>
    /\ handled = 0

Init ==
    /\ setup \in Setups
    /\ Started

\* ------------------------------------------------------- search collaborator

\* what DDGS().text yields for a query: raw hits keyed title/href/body
\* (a hit may lack a key)
ProviderHits(q) ==
    IF q = "q1"
    THEN <<[title |-> "t1", href |-> "h1", body |-> "b1"]>>
    ELSE <<[title |-> "t2", href |-> "h2", body |-> "b2"],
           [title |-> "t3", href |-> "h3"]>>

DdgsText(q, mr) == SubSeq(ProviderHits(q), 1, Min(mr, Len(ProviderHits(q))))

\* r.get(key, "")
Get(r, key) == IF key \in DOMAIN r THEN r[key] ELSE ""

\* the record built for a query whose provider call returned
QueryResults(q, hits) ==
    [query |-> q,
     results |-> [i \in 1..Len(hits) |->
                    [title |-> Get(hits[i], "title"),
                     url |-> Get(hits[i], "href"),
                     snippet |-> Get(hits[i], "body")]]]

\* the record built for a query whose provider call threw
QueryError(q, e) == [query |-> q, error |-> e]

\* an explicit "any" taken for "not given"
EffectiveDateFilter_AnyIsUnset(df, st) ==
    IF df # None /\ df # "" /\ df # "any" THEN df
    ELSE IF st.date_range # None THEN st.date_range ELSE "any"

\* effective_date_filter and timelimit
EffectiveDateFilter(df, st) ==
    IF df # None /\ df # "" THEN df
    ELSE IF st.date_range # None THEN st.date_range ELSE "any"

Timelimit(df, st) ==
    LET f == EffectiveDateFilter(df, st) IN
    IF f = "last_week" THEN "w"
    ELSE IF f = "last_month" THEN "m"
    ELSE IF f = "last_year" THEN "y"
    ELSE None

\* the language code passed on as it is
Region_LanguageOnly(st) ==
    IF st.research_language # None /\ st.research_language # ""
       /\ st.research_language # "en"
    THEN <<st.research_language>>
    ELSE <<"wt-wt">>

\* region
Region(st) ==
    IF st.research_language # None /\ st.research_language # ""
       /\ st.research_language # "en"
    THEN <<st.research_language, "-", st.research_language>>
    ELSE <<"wt-wt">>

\* the entry written by every call, not only the first of its thread
StartTimesAfter_Overwrite(times, t, clock) ==
    [x \in (DOMAIN times) \cup {t} |-> IF x = t THEN clock ELSE times[x]]

\* research_start_times after the first two lines of toolcall_web_research
StartTimesAfter(times, t, clock) ==
    IF t \notin DOMAIN times
    THEN [x \in (DOMAIN times) \cup {t} |-> IF x = t THEN clock ELSE times[x]]
    ELSE times

\* ------------------------------------------------ toolcall_web_research

\* "if not queries"
NoQueries(qs) == Len(qs) = 0

\* the comparison off by one
TooManyQueries_OffByOne(qs) == Len(qs) >= MaxQueriesPerCall

\* "if len(queries) > 10"
TooManyQueries(qs) == Len(qs) > MaxQueriesPerCall

\* entry, argument reading and validation of toolcall_web_research
WebResearch(t, qs, mr, df) ==
    /\ pc = "idle"
    /\ now < MaxCalls
    /\ now' = now + 1
    /\ tool' = "web_research"
    /\ fcall_ft_id' = t
    /\ research_start_times' = StartTimesAfter(research_start_times, t, now')
    /\ queries' = qs
    /\ max_results' = mr
    /\ date_filter' = df
    /\ budget_before' = budget_used[t]
    /\ IF NoQueries(qs)
       THEN /\ response' = [NoResponse EXCEPT !.kind = "NoQueries",
                               !.message = "Error: No search queries provided."]
            /\ pc' = "returned"
            /\ UNCHANGED budget_used
       ELSE IF TooManyQueries(qs)
       THEN /\ response' = [NoResponse EXCEPT !.kind = "TooManyQueries",
                               !.n = Len(qs),
                               !.message = "Error: Maximum 10 queries allowed per call."]
            /\ pc' = "returned"
            /\ UNCHANGED budget_used
       ELSE \* no check against setup["max_research_depth"]: the whole batch
            \* goes on to the search phase
            /\ response' = NoResponse
            /\ pc' = "ddgs_init"
            /\ budget_used' = [budget_used EXCEPT ![t] = @ + Len(qs)]
    /\ UNCHANGED <<setup, searchLocals, inflight, threw, urls, fetchLocals,
                   store, reportLocals, delegated, notifier>>

\* "with DDGS() as ddgs" succeeds
DDGSInitOk ==
    /\ pc = "ddgs_init"
    /\ pc' = "search"
    /\ UNCHANGED <<persistent, budget_before, toolcall, searchArgs,
                   searchLocals, inflight, threw, urls, fetchLocals, response,
                   store, reportLocals, delegated, notifier>>

\* the outer except returning what was gathered instead of the error
InitFailure_ReturnsResults(e) ==
    [NoResponse EXCEPT !.kind = "json"]

\* the return value of the outer except
InitFailure(e) ==
    [NoResponse EXCEPT !.kind = "SearchUnavailable",
                       !.message = "Error: Failed to initialize search: ",
                       !.detail = e]

\* "with DDGS() as ddgs" raises: the outer except
DDGSInitFails(e) ==
    /\ pc = "ddgs_init"
    /\ pc' = "returned"
    /\ response' = InitFailure(e)
    /\ UNCHANGED <<persistent, budget_before, toolcall, searchArgs,
                   searchLocals, inflight, threw, urls, fetchLocals,
                   store, reportLocals, delegated, notifier>>

\* the loop reaches the next query and calls ddgs.text for it
QueryStart ==
    /\ pc = "search"
    /\ inflight = {}
    /\ Len(all_results) < Len(queries)
    /\ LET i == Len(all_results) + 1 IN
        /\ inflight' = {i}
        /\ ddgs_calls' = Append(ddgs_calls,
                                [query |-> queries[i],
                                 region |-> Region(setup),
                                 timelimit |-> Timelimit(date_filter, setup),
                                 max_results |-> max_results])
    /\ UNCHANGED <<persistent, budget_before, pc, toolcall, searchArgs,
                   all_results, threw, urls, fetchLocals, response,
                   store, reportLocals, delegated, notifier>>

\* all_results after the provider call for a query returned
AppendResults(rs, q, hits) == Append(rs, QueryResults(q, hits))

\* the error record without the query it belongs to
AppendError_NoQuery(rs, q, e) == Append(rs, [error |-> e])

\* all_results after the provider call for a query threw
AppendError(rs, q, e) == Append(rs, QueryError(q, e))

\* ddgs.text returns for the query in flight
QueryReturns ==
    /\ pc = "search"
    /\ \E i \in inflight :
        /\ all_results' = AppendResults(all_results, queries[i],
                                        DdgsText(queries[i], max_results))
        /\ inflight' = inflight \ {i}
    /\ UNCHANGED <<persistent, budget_before, pc, toolcall, searchArgs,
                   ddgs_calls, threw, urls, fetchLocals, response,
                   store, reportLocals, delegated, notifier>>

\* the inner except calling ddgs.text again for the same query
QueryThrows_Retry(e) ==
    /\ pc = "search"
    /\ Cardinality(threw) < MaxThrows
    /\ \E i \in inflight :
        /\ ddgs_calls' = Append(ddgs_calls, ddgs_calls[Len(ddgs_calls)])
        /\ threw' = threw \cup {i}
    /\ UNCHANGED <<persistent, budget_before, pc, toolcall, searchArgs,
                   all_results, inflight, urls, fetchLocals, response,
                   store, reportLocals, delegated, notifier>>

\* ddgs.text raises for the query in flight: the inner except
QueryThrows(e) ==
    /\ pc = "search"
    /\ Cardinality(threw) < MaxThrows
    /\ \E i \in inflight :
        /\ all_results' = AppendError(all_results, queries[i], e)
        /\ inflight' = inflight \ {i}
        /\ threw' = threw \cup {i}
    /\ UNCHANGED <<persistent, budget_before, pc, toolcall, searchArgs,
                   ddgs_calls, urls, fetchLocals, response,
                   store, reportLocals, delegated, notifier>>

\* json.dumps(all_results, indent=2)
SearchResponse(rs) ==
    [NoResponse EXCEPT !.kind = "json", !.n = Len(rs), !.body = rs]

\* the loop is over: return json.dumps(all_results)
SearchFinish ==
    /\ pc = "search"
    /\ inflight = {}
    /\ Len(all_results) = Len(queries)
    /\ response' = SearchResponse(all_results)
    /\ pc' = "returned"
    /\ UNCHANGED <<persistent, budget_before, toolcall, searchArgs,
                   searchLocals, inflight, threw, urls, fetchLocals,
                   store, reportLocals, delegated, notifier>>

\* ------------------------------------------------- fetch/parse collaborator

\* what newspaper's Article holds for a url after download() and parse():
\* text is represented by its length in characters
ArticleOf(u) ==
    IF u = "u1"
    THEN [title |-> "a1", authors |-> <<"x">>, publish_date |-> None,
          text |-> 500]
    ELSE [title |-> "a2", authors |-> <<"y", "z">>, publish_date |-> <<"2024-01-15">>,
          text |-> 9000]

\* str(article.publish_date) if article.publish_date else None
PublishDate(d) == IF d # None THEN d[1] ELSE None

\* article.text[:8000]
Text(len) == Min(len, TextCap)

\* article.text[:800] + "..." if len(article.text) > 800 else article.text
Summary(len) ==
    IF len > SummaryCap
    THEN [chars |-> SummaryCap, ellipsis |-> TRUE]
    ELSE [chars |-> len, ellipsis |-> FALSE]

\* the record built for a url that was downloaded and parsed
ArticleResult(u, a) ==
    [url |-> u,
     title |-> a.title,
     authors |-> a.authors,
     publish_date |-> PublishDate(a.publish_date),
     text |-> Text(a.text),
     summary |-> Summary(a.text)]

\* the record built for a url whose download or parse threw
ArticleError(u, e) == [url |-> u, error |-> e]

\* ------------------------------------------------ toolcall_read_article

\* "if not urls"
NoUrls(us) == Len(us) = 0

\* the comparison off by one
TooManyUrls_OffByOne(us) == Len(us) >= MaxUrlsPerCall

\* "if len(urls) > 15"
TooManyUrls(us) == Len(us) > MaxUrlsPerCall

\* entry, argument reading and validation of toolcall_read_article
ReadArticle(t, us) ==
    /\ pc = "idle"
    /\ tool' = "read_article"
    /\ fcall_ft_id' = t
    /\ urls' = us
    /\ IF NoUrls(us)
       THEN /\ response' = [NoResponse EXCEPT !.kind = "NoURLs",
                               !.message = "Error: No URLs provided."]
            /\ pc' = "returned"
       ELSE IF TooManyUrls(us)
       THEN /\ response' = [NoResponse EXCEPT !.kind = "TooManyURLs",
                               !.n = Len(us),
                               !.message = "Error: Maximum 15 URLs allowed per call."]
            /\ pc' = "returned"
       ELSE /\ response' = NoResponse
            /\ pc' = "fetch"
    /\ UNCHANGED <<persistent, budget_before, searchArgs, searchLocals,
                   inflight, threw, fetchLocals,
                   store, reportLocals, delegated, notifier>>

\* the operation the in-flight url is in: "download" or "parse"
Stage == article_calls[Len(article_calls)].op

\* the loop reaches the next url: Article(url) and article.download()
ArticleDownload ==
    /\ pc = "fetch"
    /\ inflight = {}
    /\ Len(results) < Len(urls)
    /\ LET i == Len(results) + 1 IN
        /\ inflight' = {i}
        /\ article_calls' = Append(article_calls,
                                   [url |-> urls[i], op |-> "download"])
    /\ UNCHANGED <<persistent, budget_before, pc, toolcall, searchArgs,
                   searchLocals, threw, urls, results, response,
                   store, reportLocals, delegated, notifier>>

\* article.download() returns: article.parse() is called
DownloadReturns ==
    /\ pc = "fetch"
    /\ \E i \in inflight :
        /\ Stage = "download"
        /\ article_calls' = Append(article_calls,
                                   [url |-> urls[i], op |-> "parse"])
    /\ UNCHANGED <<persistent, budget_before, pc, toolcall, searchArgs,
                   searchLocals, inflight, threw, urls, results, response,
                   store, reportLocals, delegated, notifier>>

\* results after a url was read
AppendArticle(rs, u, a) == Append(rs, ArticleResult(u, a))

\* the error record without the url it belongs to
AppendArticleError_NoUrl(rs, u, e) == Append(rs, [error |-> e])

\* results after reading a url threw
AppendArticleError(rs, u, e) == Append(rs, ArticleError(u, e))

\* article.download() raises: the except of the loop body
DownloadThrows(e) ==
    /\ pc = "fetch"
    /\ Cardinality(threw) < MaxThrows
    /\ \E i \in inflight :
        /\ Stage = "download"
        /\ results' = AppendArticleError(results, urls[i], e)
        /\ inflight' = inflight \ {i}
        /\ threw' = threw \cup {i}
    /\ UNCHANGED <<persistent, budget_before, pc, toolcall, searchArgs,
                   searchLocals, urls, article_calls, response,
                   store, reportLocals, delegated, notifier>>

\* article.parse() returns and the result record is built
ParseReturns ==
    /\ pc = "fetch"
    /\ \E i \in inflight :
        /\ Stage = "parse"
        /\ results' = AppendArticle(results, urls[i], ArticleOf(urls[i]))
        /\ inflight' = inflight \ {i}
    /\ UNCHANGED <<persistent, budget_before, pc, toolcall, searchArgs,
                   searchLocals, threw, urls, article_calls, response,
                   store, reportLocals, delegated, notifier>>

\* article.parse() raises: the except of the loop body
ParseThrows(e) ==
    /\ pc = "fetch"
    /\ Cardinality(threw) < MaxThrows
    /\ \E i \in inflight :
        /\ Stage = "parse"
        /\ results' = AppendArticleError(results, urls[i], e)
        /\ inflight' = inflight \ {i}
        /\ threw' = threw \cup {i}
    /\ UNCHANGED <<persistent, budget_before, pc, toolcall, searchArgs,
                   searchLocals, urls, article_calls, response,
                   store, reportLocals, delegated, notifier>>

\* json.dumps(results, indent=2)
FetchResponse(rs) ==
    [NoResponse EXCEPT !.kind = "json", !.n = Len(rs), !.body = rs]

\* the loop is over: return json.dumps(results)
FetchFinish ==
    /\ pc = "fetch"
    /\ inflight = {}
    /\ Len(results) = Len(urls)
    /\ response' = FetchResponse(results)
    /\ pc' = "returned"
    /\ UNCHANGED <<persistent, budget_before, toolcall, searchArgs,
                   searchLocals, inflight, threw, urls, fetchLocals,
                   store, reportLocals, delegated, notifier>>

\* ------------------------------------------- toolcall_create_research_report

\* the dict a merged with the dict b: {**a, **b}
Merge(a, b) ==
    [k \in (DOMAIN a) \cup (DOMAIN b) |-> IF k \in DOMAIN b THEN b[k] ELSE a[k]]

\* the sources of a report, numbered as in nums
Sources(nums) ==
    [i \in 1..Len(nums) |->
        [number |-> nums[i], title |-> "s", url |-> "u", type |-> "article"]]

\* a report that meets the tool's schema and numbers and cites its three
\* sources correctly
GoodReport ==
    [title |-> "T",
     executive_summary |-> "E",
     research_questions |-> <<"Q">>,
     key_findings |-> <<[theme |-> "th", finding |-> "f",
                         citations |-> <<1, 3>>]>>,
     sources |-> Sources(<<1, 2, 3>>),
     conclusions |-> "C",
     research_date |-> "2024-01-15",
     source_count |-> 3,
     research_time_minutes |-> 20,
     confidence_level |-> "high"]

\* a timestamp a caller may put into a report: not a reading of the clock
CallerTime == 0 - 1

\* the reports a caller submits: the good one, and the good one changed in
\* its citations, its numbering, its source_count, its confidence_level, or
\* carrying a key of its own named meta or created_at
Reports ==
    {GoodReport}
    \cup {[GoodReport EXCEPT !.key_findings[1].citations = c] :
            c \in {<<4>>, <<1, 4>>, <<>>}}
    \cup {[GoodReport EXCEPT !.sources = Sources(n)] :
            n \in {<<1, 1, 3>>, <<1, 3, 4>>, <<2, 3, 4>>}}
    \cup {[GoodReport EXCEPT !.source_count = 2]}
    \cup {[GoodReport EXCEPT !.confidence_level = c] :
            c \in {"medium", "low", "certain"}}
    \cup {Merge(GoodReport,
                [meta |-> [created_at |-> CallerTime, created_by |-> "caller",
                           microfrontend |-> "deep_research"]]),
          Merge(GoodReport, [created_at |-> CallerTime])}

Paths == {"/research/a", "/research/b"}

\* the "meta" the handler stamps: time.strftime reads the clock
Meta(clock) ==
    [created_at |-> clock, created_by |-> "deep_research",
     microfrontend |-> "deep_research"]

\* research_report_doc: {"research_report": {"meta": {...}, **report}}
ResearchReportDoc(r, clock) ==
    [research_report |-> Merge([meta |-> Meta(clock)], r)]

\* ckit_external_auth.get_fuser_id_from_rcx(rcx, toolcall.fcall_ft_id)
FuserId(t) == <<"fuser", t>>

\* the document store after pdoc_create(path, doc)
PdocCreate(st, p, doc) ==
    [x \in (DOMAIN st) \cup {p} |-> IF x = p THEN doc ELSE st[x]]

\* the confirmation the handler returns
ReportCreated(p, r) ==
    [NoResponse EXCEPT
        !.kind = "created",
        !.message = "Research report created at: ",
        !.body = <<[path |-> p, title |-> r.title,
                    confidence |-> r.confidence_level,
                    sources |-> r.source_count,
                    minutes |-> r.research_time_minutes]>>]

\* entry of toolcall_create_research_report up to the awaited pdoc_create
CreateResearchReport(t, p, r) ==
    /\ pc = "idle"
    /\ now < MaxCalls
    /\ now' = now + 1
    /\ tool' = "create_research_report"
    /\ fcall_ft_id' = t
    /\ path' = p
    /\ report' = r
    /\ research_report_doc' = ResearchReportDoc(r, now')
    /\ pdoc_calls' = <<[path |-> p, doc |-> research_report_doc',
                        fuser_id |-> FuserId(t)]>>
    /\ pc' = "pdoc_create"
    /\ UNCHANGED <<setup, research_start_times, budget_used, budget_before,
                   searchArgs, searchLocals, inflight, threw, urls,
                   fetchLocals, response, store, delegated, notifier>>

\* pdoc_create returns: the document is stored and the handler returns
PdocCreateReturns ==
    /\ pc = "pdoc_create"
    /\ store' = PdocCreate(store, path, research_report_doc)
    /\ response' = ReportCreated(path, report)
    /\ pc' = "returned"
    /\ UNCHANGED <<persistent, budget_before, toolcall, searchArgs,
                   searchLocals, inflight, threw, urls, fetchLocals,
                   reportLocals, delegated, notifier>>

\* pdoc_create raises: nothing catches it in the handler
PdocCreateRaises(e) ==
    /\ pc = "pdoc_create"
    /\ response' = [NoResponse EXCEPT !.kind = "raised", !.detail = e]
    /\ pc' = "returned"
    /\ UNCHANGED <<persistent, budget_before, toolcall, searchArgs,
                   searchLocals, inflight, threw, urls, fetchLocals,
                   store, reportLocals, delegated, notifier>>

\* ------------------------------------------------- updated_message_in_db

\* setups with and without the Slack token and the notification channel
\* (None: the key is absent)
SlackSetups ==
    [SLACK_BOT_TOKEN : {None, "", "xoxb"},
     SLACK_NOTIFICATION_CHANNEL : {None, "", "research"},
     research_language : {"en"},
     date_range : {None},
     max_research_depth : {DefaultResearchDepth}]

\* ftm_content of a message: absent, empty, some text, and the text that
\* carries the "Research report created" marker
ReportCreatedText == "(chart) Research report created: /research/a"
Contents == {None, "", "Summary of the findings", ReportCreatedText}

\* ftm_tool_calls of a message, as the names of the functions called
ToolCalls == {<<>>, <<"web_research">>, <<"create_research_report">>}

\* the messages the host hands to the handler
Messages ==
    [ftm_role : {"assistant", "user"}, ftm_content : Contents,
     ftm_tool_calls : ToolCalls, ftm_ft_id : Threads]

\* what rcx.latest_threads.get(msg.ftm_ft_id) gives: nothing, or the thread
\* with or without a searchable title
ThreadLookups ==
    {NoThread} \cup [known : {TRUE}, ft_app_searchable : {"", "Solar panels"}]

\* a Python value that is truthy
Truthy(v) == v # None /\ v # ""

\* slack is an IntegrationSlack and not None
Slack(st) == Truthy(st.SLACK_BOT_TOKEN)

\* "create_research_report" in str(msg.ftm_tool_calls)
HasReportCall(m) ==
    \E i \in 1..Len(m.ftm_tool_calls) :
        m.ftm_tool_calls[i] = "create_research_report"

\* the marker of a created report in content
MentionsReportCreated(m) == m.ftm_content = ReportCreatedText

\* the conditions under which the handler goes on to the notification
WantsNotification(m, st) ==
    /\ m.ftm_role = "assistant"
    /\ Truthy(m.ftm_content)
    /\ HasReportCall(m) \/ MentionsReportCreated(m)
    /\ Truthy(st.SLACK_NOTIFICATION_CHANNEL)

\* the arguments of slack.bot_post_text
CompletionPost(st, th) ==
    [channel_name |-> st.SLACK_NOTIFICATION_CHANNEL,
     text |-> <<"Research completed: ",
                IF Truthy(th.ft_app_searchable) THEN th.ft_app_searchable
                ELSE "Research completed">>,
     thread_ts |-> None]

\* the host hands a message to the handler: if slack
UpdatedMessage(m) ==
    /\ hpc = "idle"
    /\ handled < MaxMessages
    /\ handled' = handled + 1
    /\ msg' = m
    /\ thread' = NoThread
    /\ posted' = FALSE
    /\ hpc' = IF Slack(setup) THEN "look" ELSE "done"
    /\ UNCHANGED <<persistent, budget_before, pc, toolcall, searchArgs,
                   searchLocals, inflight, threw, urls, fetchLocals, response,
                   store, reportLocals, delegated, slack_posts, logged>>

\* slack.look_assistant_might_have_posted_something returns; the handler
\* tests the message and the channel, looks the thread up and, if there is
\* one, calls slack.bot_post_text
LookReturns(th) ==
    /\ hpc = "look"
    /\ IF WantsNotification(msg, setup)
       THEN /\ thread' = th
            /\ IF th.known
               THEN /\ slack_posts' =
                            Append(slack_posts, CompletionPost(setup, th))
                    /\ posted' = TRUE
                    /\ hpc' = "post"
               ELSE /\ hpc' = "done"
                    /\ UNCHANGED <<slack_posts, posted>>
       ELSE /\ hpc' = "done"
            /\ UNCHANGED <<thread, slack_posts, posted>>
    /\ UNCHANGED <<persistent, budget_before, pc, toolcall, searchArgs,
                   searchLocals, inflight, threw, urls, fetchLocals, response,
                   store, reportLocals, delegated, msg, logged, handled>>

\* slack.look_assistant_might_have_posted_something raises: the call is
\* outside the try, the exception leaves the handler
LookRaises(e) ==
    /\ hpc = "look"
    /\ hpc' = "raised"
    /\ UNCHANGED <<persistent, budget_before, pc, toolcall, searchArgs,
                   searchLocals, inflight, threw, urls, fetchLocals, response,
                   store, reportLocals, delegated, msg, thread, posted,
                   slack_posts, logged, handled>>

\* slack.bot_post_text returns
PostReturns ==
    /\ hpc = "post"
    /\ hpc' = "done"
    /\ UNCHANGED <<persistent, budget_before, pc, toolcall, searchArgs,
                   searchLocals, inflight, threw, urls, fetchLocals, response,
                   store, reportLocals, delegated, msg, thread, posted,
                   slack_posts, logged, handled>>

\* slack.bot_post_text raises: the except logs the exception
PostRaises(e) ==
    /\ hpc = "post"
    /\ logged' = Append(logged, e)
    /\ hpc' = "done"
    /\ UNCHANGED <<persistent, budget_before, pc, toolcall, searchArgs,
                   searchLocals, inflight, threw, urls, fetchLocals, response,
                   store, reportLocals, delegated, msg, thread, posted,
                   slack_posts, handled>>

\* the handler is over, with or without an exception
HandlerEnds ==
    /\ hpc \in {"done", "raised"}
    /\ hpc' = "idle"
    /\ msg' = NoMessage
    /\ thread' = NoThread
    /\ posted' = FALSE
    /\ UNCHANGED <<persistent, budget_before, pc, toolcall, searchArgs,
                   searchLocals, inflight, threw, urls, fetchLocals, response,
                   store, reportLocals, delegated, slack_posts, logged,
                   handled>>

\* ------------------------------------------------------- delegated fetch
\* The delegated execution of a fetch (one child task per url and a join on
\* all of them) is not part of the handlers above; it is modelled from the
\* design of FetchFanout / SubtaskDelegator.

\* everything the handlers of the main loop own
inlineVars == <<persistent, budget_before, pc, toolcall, searchArgs,
                searchLocals, inflight, threw, urls, fetchLocals, response,
                store, reportLocals, notifier>>

\* the url lists handed to a delegated fetch: every list up to MaxLen, and
\* the list just above the limit
DelegatedUrlLists ==
    {us \in UrlLists : Len(us) <= MaxLen \/ Len(us) > MaxUrlsPerCall}

\* a child reached a terminal result
Terminal(status) == status \in {"success", "failure"}

\* some child is terminal
AllTerminal_Any(cs) == \E i \in 1..Len(cs) : Terminal(cs[i])

\* the join barrier: every child is terminal
AllTerminal(cs) == \A i \in 1..Len(cs) : Terminal(cs[i])

\* the children that have not produced a terminal result
Outstanding(cs) == {i \in 1..Len(cs) : ~Terminal(cs[i])}

\* the join resuming a canceled parent
CanResume_IgnoresCancel(ph, c, cs) == ph = "AwaitingChildren" /\ AllTerminal(cs)

\* the parent may be resumed
CanResume(ph, c, cs) == ph = "AwaitingChildren" /\ ~c /\ AllTerminal(cs)

\* the FetchResult of a child: the article, or an error record
ChildResult(u, status) ==
    IF status = "success"
    THEN ArticleResult(u, ArticleOf(u))
    ELSE [url |-> u, error_kind |-> "unknown_error", message |-> "failed"]

\* validation before dispatch: no work is started for a rejected list
DelegatedReject(us) ==
    /\ dphase = "none"
    /\ NoUrls(us) \/ TooManyUrls(us)
    /\ dphase' = "Rejected"
    /\ durls' = us
    /\ UNCHANGED <<inlineVars, children, cancel_marked, canceled, resumed,
                   aggregated>>

\* an accepted list is dispatched
DelegatedFetch(us) ==
    /\ dphase = "none"
    /\ ~NoUrls(us) /\ ~TooManyUrls(us)
    /\ dphase' = "Dispatched"
    /\ durls' = us
    /\ UNCHANGED <<inlineVars, children, cancel_marked, canceled, resumed,
                   aggregated>>

\* spawn(parent_id, prompt, restricted_tool_set) for the next url
SpawnChild ==
    /\ dphase = "Dispatched"
    /\ ~canceled
    /\ Len(children) < Len(durls)
    /\ children' = Append(children, "running")
    /\ UNCHANGED <<inlineVars, dphase, durls, cancel_marked, canceled,
                   resumed, aggregated>>

\* awaitAll(child_ids): the parent suspends on the set of its children
AwaitChildren ==
    /\ dphase = "Dispatched"
    /\ ~canceled
    /\ Len(children) = Len(durls)
    /\ dphase' = "AwaitingChildren"
    /\ UNCHANGED <<inlineVars, durls, children, cancel_marked, canceled,
                   resumed, aggregated>>

\* a child reports success
ChildSucceeds(i) ==
    /\ i \in Outstanding(children)
    /\ children' = [children EXCEPT ![i] = "success"]
    /\ UNCHANGED <<inlineVars, dphase, durls, cancel_marked, canceled,
                   resumed, aggregated>>

\* a child reports failure
ChildFails(i) ==
    /\ i \in Outstanding(children)
    /\ children' = [children EXCEPT ![i] = "failure"]
    /\ UNCHANGED <<inlineVars, dphase, durls, cancel_marked, canceled,
                   resumed, aggregated>>

\* the join handing the parent the results of the successful children only
ResumeParent_DropsFailures ==
    /\ CanResume(dphase, canceled, children)
    /\ dphase' = "Aggregated"
    /\ resumed' = resumed + 1
    /\ aggregated' =
            LET all == [i \in 1..Len(durls) |->
                            ChildResult(durls[i], children[i])]
            IN  SelectSeq(all, LAMBDA r : "text" \in DOMAIN r)
    /\ UNCHANGED <<inlineVars, durls, children, cancel_marked, canceled>>

\* the join is satisfied: the parent is resumed with the aggregated results
ResumeParent ==
    /\ CanResume(dphase, canceled, children)
    /\ dphase' = "Aggregated"
    /\ resumed' = resumed + 1
    /\ aggregated' = [i \in 1..Len(durls) |-> ChildResult(durls[i], children[i])]
    /\ UNCHANGED <<inlineVars, durls, children, cancel_marked, canceled>>

\* the host cancels the parent session before the join completed
CancelParent ==
    /\ dphase \in {"Dispatched", "AwaitingChildren"}
    /\ ~canceled
    /\ canceled' = TRUE
    /\ cancel_marked' = Outstanding(children)
    /\ UNCHANGED <<inlineVars, dphase, durls, children, resumed, aggregated>>

\* ------------------------------------------------------------- the host

\* the host takes the handler's return value; the call's locals are gone
Return ==
    /\ pc = "returned"
    /\ pc' = "idle"
    /\ tool' = None
    /\ fcall_ft_id' = None
    /\ budget_before' = 0
    /\ queries' = <<>>
    /\ max_results' = DefaultMaxResults
    /\ date_filter' = None
    /\ all_results' = <<>>
    /\ inflight' = {}
    /\ threw' = {}
    /\ ddgs_calls' = <<>>
    /\ urls' = <<>>
    /\ results' = <<>>
    /\ article_calls' = <<>>
    /\ response' = NoResponse
    /\ path' = None
    /\ report' = <<>>
    /\ research_report_doc' = <<>>
    /\ pdoc_calls' = <<>>
    /\ UNCHANGED <<persistent, store, delegated, notifier>>

NextSearch ==
    \/ \E t \in Threads, qs \in QueryLists :
            WebResearch(t, qs, DefaultMaxResults, None)
    \/ DDGSInitOk
    \/ \E e \in ErrorMessages : DDGSInitFails(e)
    \/ QueryStart
    \/ QueryReturns
    \/ \E e \in ErrorMessages : QueryThrows(e)
    \/ SearchFinish
    \/ Return

NextFetch ==
    \/ \E t \in Threads, us \in UrlLists : ReadArticle(t, us)
    \/ ArticleDownload
    \/ DownloadReturns
    \/ \E e \in ErrorMessages : DownloadThrows(e)
    \/ ParseReturns
    \/ \E e \in ErrorMessages : ParseThrows(e)
    \/ FetchFinish
    \/ Return

\* the bot serving web_research calls
Spec == Init /\ [][NextSearch]_vars

\* the bot serving read_article calls
SpecFetch == Init /\ [][NextFetch]_vars

\* the bot of the default setup
InitDefault == Init /\ setup.max_research_depth = DefaultResearchDepth

\* web_research and read_article calls of one bot: one web_research call
\* and any number of read_article calls
NextTools ==
    \/ \E t \in Threads, qs \in QueryLists :
            now = 0 /\ WebResearch(t, qs, DefaultMaxResults, None)
    \/ DDGSInitOk
    \/ \E e \in ErrorMessages : DDGSInitFails(e)
    \/ QueryStart
    \/ QueryReturns
    \/ \E e \in ErrorMessages : QueryThrows(e)
    \/ SearchFinish
    \/ \E t \in Threads, us \in UrlLists : ReadArticle(t, us)
    \/ ArticleDownload
    \/ DownloadReturns
    \/ \E e \in ErrorMessages : DownloadThrows(e)
    \/ ParseReturns
    \/ \E e \in ErrorMessages : ParseThrows(e)
    \/ FetchFinish
    \/ Return

SpecTools == InitDefault /\ [][NextTools]_vars

\* the bot under each setup of language and date range
InitLocale ==
    /\ setup \in LocaleSetups
    /\ Started

\* the query lists of up to two queries
LocaleQueryLists == {qs \in QueryLists : Len(qs) <= 2}

\* one web_research call with each date_filter and max_results_per_query
NextLocale ==
    \/ \E t \in Threads, qs \in LocaleQueryLists,
          mr \in MaxResultsChoices, df \in DateFilters :
            now = 0 /\ WebResearch(t, qs, mr, df)
    \/ DDGSInitOk
    \/ \E e \in ErrorMessages : DDGSInitFails(e)
    \/ QueryStart
    \/ QueryReturns
    \/ \E e \in ErrorMessages : QueryThrows(e)
    \/ SearchFinish
    \/ Return

SpecLocale == InitLocale /\ [][NextLocale]_vars

\* the url lists of up to two urls
ShortUrlLists == {us \in UrlLists : Len(us) <= 2}

\* the three tools of one bot: web_research, read_article and
\* create_research_report calls in any order
NextEngine ==
    \/ \E t \in Threads, qs \in LocaleQueryLists :
            WebResearch(t, qs, DefaultMaxResults, None)
    \/ DDGSInitOk
    \/ \E e \in ErrorMessages : DDGSInitFails(e)
    \/ QueryStart
    \/ QueryReturns
    \/ \E e \in ErrorMessages : QueryThrows(e)
    \/ SearchFinish
    \/ \E t \in Threads, us \in ShortUrlLists : ReadArticle(t, us)
    \/ ArticleDownload
    \/ DownloadReturns
    \/ \E e \in ErrorMessages : DownloadThrows(e)
    \/ ParseReturns
    \/ \E e \in ErrorMessages : ParseThrows(e)
    \/ FetchFinish
    \/ \E t \in Threads, p \in Paths : CreateResearchReport(t, p, GoodReport)
    \/ PdocCreateReturns
    \/ \E e \in ErrorMessages : PdocCreateRaises(e)
    \/ Return

SpecEngine == InitDefault /\ [][NextEngine]_vars

NextReport ==
    \/ \E t \in Threads, p \in Paths, r \in Reports :
            CreateResearchReport(t, p, r)
    \/ PdocCreateReturns
    \/ \E e \in ErrorMessages : PdocCreateRaises(e)
    \/ Return

\* the bot serving create_research_report calls
SpecReport == InitDefault /\ [][NextReport]_vars

\* the bot under each Slack configuration
InitSlack ==
    /\ setup \in SlackSetups
    /\ Started

NextSlack ==
    \/ \E m \in Messages : UpdatedMessage(m)
    \/ \E th \in ThreadLookups : LookReturns(th)
    \/ \E e \in ErrorMessages : LookRaises(e)
    \/ PostReturns
    \/ \E e \in ErrorMessages : PostRaises(e)
    \/ HandlerEnds

\* the message handler on its own
SpecSlack == InitSlack /\ [][NextSlack]_vars

NextDelegated ==
    \/ \E us \in DelegatedUrlLists : DelegatedReject(us)
    \/ \E us \in DelegatedUrlLists : DelegatedFetch(us)
    \/ SpawnChild
    \/ AwaitChildren
    \/ \E i \in 1..MaxLen : ChildSucceeds(i)
    \/ \E i \in 1..MaxLen : ChildFails(i)
    \/ ResumeParent
    \/ CancelParent

\* a fetch executed in delegated mode
SpecDelegated == Init /\ [][NextDelegated]_vars

\* some spawned child reaches a terminal state
ChildTerminates == \E i \in 1..MaxLen : ChildSucceeds(i) \/ ChildFails(i)

\* the same under a scheduler that runs the parent's own steps (spawning,
\* suspending on the children, the resume of a satisfied join) and with
\* children that all terminate. Nothing is assumed of the host's
\* cancellation.
SpecDelegatedFair ==
    /\ SpecDelegated
    /\ WF_vars(SpawnChild)
    /\ WF_vars(AwaitChildren)
    /\ WF_vars(ResumeParent)
    /\ WF_vars(ChildTerminates)

\* =================================================================== claims

\* the active call is a web_research call / a read_article call
InSearch == tool = "web_research"
InFetch == tool = "read_article"

\* the active web_research call passed the handler's validation
Validated == InSearch /\ ~NoQueries(queries) /\ ~TooManyQueries(queries)

\* budget left to the caller's thread when the active call was entered
RemainingAtEntry == setup.max_research_depth - budget_before

\* C1: in every state and for every thread, the number of queries admitted
\* for the thread is at most the configured max_research_depth.
C1_BudgetNeverExceeded ==
    \A t \in Threads : budget_used[t] <= setup.max_research_depth

\* C2: a validated batch of n queries with n above the remaining budget is
\* granted nothing and leaves budget_used as it was at entry; a batch with n
\* within the remaining budget adds exactly n.
C2_ReserveAllOrNothing ==
    Validated =>
        IF Len(queries) > RemainingAtEntry
        THEN budget_used[fcall_ft_id] = budget_before
        ELSE budget_used[fcall_ft_id] = budget_before + Len(queries)

\* C3: when a thread that already had a batch granted has another batch
\* granted, budget_used is the sum of the granted sizes and the second grant
\* fits in what the first left.
C3_SecondGrantFits ==
    (Validated /\ budget_before > 0
        /\ budget_used[fcall_ft_id] > budget_before) =>
            /\ budget_used[fcall_ft_id] = budget_before + Len(queries)
            /\ Len(queries) <= RemainingAtEntry

\* C4: a validated batch larger than the remaining budget fails as a whole
\* with BudgetExceeded: the call is over at once, nothing was sent to the
\* provider and no result was gathered.
C4_OverBudgetBatchRejected ==
    (Validated /\ Len(queries) > RemainingAtEntry) =>
        /\ pc = "returned"
        /\ response.kind = "BudgetExceeded"
        /\ ddgs_calls = <<>>
        /\ all_results = <<>>

\* C5: a web_research call goes on to the search phase exactly when
\* 1 <= len(queries) <= 10; the empty list returns NoQueries and a longer
\* list returns TooManyQueries, with budget_used as at entry and no call to
\* the provider.
C5_QueryValidation ==
    InSearch =>
        /\ (response.kind = "NoQueries") <=> (Len(queries) = 0)
        /\ (response.kind = "TooManyQueries")
                <=> (Len(queries) > MaxQueriesPerCall)
        /\ (response.kind \in {"NoQueries", "TooManyQueries"}) =>
                /\ pc = "returned"
                /\ budget_used[fcall_ft_id] = budget_before
                /\ ddgs_calls = <<>>
                /\ all_results = <<>>
        /\ (1 <= Len(queries) /\ Len(queries) <= MaxQueriesPerCall) =>
                /\ response.kind \in {"none", "json", "SearchUnavailable"}
                /\ pc = "search" /\ inflight = {} =>
                        Len(ddgs_calls) = Len(all_results)

\* C5 witness: a list of exactly 10 queries was searched to the end and the
\* host is handed its results
C5_Witness ==
    /\ InSearch
    /\ pc = "returned"
    /\ Len(queries) = MaxQueriesPerCall
    /\ response.kind = "json"
    /\ Len(ddgs_calls) = MaxQueriesPerCall

\* the result list of the active call: what is returned once the call is
\* over, what was gathered so far before
SearchEntries == IF pc = "returned" THEN response.body ELSE all_results
FetchEntries == IF pc = "returned" THEN response.body ELSE results

\* an entry holds exactly one of the two fields
ExactlyOne(entry, a, b) == (a \in DOMAIN entry) # (b \in DOMAIN entry)

\* C6: in a web_research call that reached the search phase, entry i of the
\* result list carries query i, holds either results or an error, holds the
\* error exactly when the provider call for query i threw, and otherwise holds
\* what the provider yields for query i alone; query i of the list was sent
\* to the provider as its i-th call; the returned list has one entry per query.
C6_PerQueryIsolation ==
    (InSearch /\ (pc = "search" \/ response.kind = "json")) =>
        /\ \A i \in 1..Len(SearchEntries) :
            LET entry == SearchEntries[i] IN
            /\ "query" \in DOMAIN entry
            /\ entry.query = queries[i]
            /\ ExactlyOne(entry, "results", "error")
            /\ ("error" \in DOMAIN entry) <=> (i \in threw)
            /\ ("results" \in DOMAIN entry) =>
                    entry = QueryResults(queries[i],
                                         DdgsText(queries[i], max_results))
        /\ \A i \in 1..Len(ddgs_calls) : ddgs_calls[i].query = queries[i]
        /\ pc = "returned" =>
            /\ Len(response.body) = Len(queries)
            /\ Len(ddgs_calls) = Len(queries)

\* C6 witness: a returned batch in which a query threw and a later query of
\* the same batch returned results
C6_Witness ==
    /\ InSearch
    /\ pc = "returned"
    /\ response.kind = "json"
    /\ \E i \in threw : \E j \in (i + 1)..Len(queries) :
            /\ j \notin threw
            /\ queries[j] # queries[i]

Downloads ==
    Cardinality({k \in 1..Len(article_calls) :
                    article_calls[k].op = "download"})

\* C8: in a batch of two or more items the collaborator call of item i+1 is
\* started without waiting for item i: whenever item i is complete, item i+1
\* has been started.
C8_BatchInFlightTogether ==
    /\ (InSearch /\ pc = "search") =>
            \A i \in 1..(Len(queries) - 1) :
                i <= Len(all_results) => i + 1 <= Len(ddgs_calls)
    /\ (InFetch /\ pc = "fetch") =>
            \A i \in 1..(Len(urls) - 1) :
                i <= Len(results) => i + 1 <= Downloads

\* C9: a read_article call goes on to fetching exactly when
\* 1 <= len(urls) <= 15; the empty list returns NoURLs and a longer list
\* returns TooManyURLs, without a single download.
C9_UrlValidation ==
    InFetch =>
        /\ (response.kind = "NoURLs") <=> (Len(urls) = 0)
        /\ (response.kind = "TooManyURLs") <=> (Len(urls) > MaxUrlsPerCall)
        /\ (response.kind \in {"NoURLs", "TooManyURLs"}) =>
                /\ pc = "returned"
                /\ article_calls = <<>>
                /\ results = <<>>
                /\ inflight = {}
        /\ (1 <= Len(urls) /\ Len(urls) <= MaxUrlsPerCall) =>
                /\ response.kind \in {"none", "json"}
                /\ pc = "returned" => Downloads = Len(urls)

\* C9 witness: a list of exactly 15 urls was read to the end
C9_Witness ==
    /\ InFetch
    /\ pc = "returned"
    /\ Len(urls) = MaxUrlsPerCall
    /\ response.kind = "json"
    /\ Downloads = MaxUrlsPerCall

\* the url of the k-th download started by the active call
RECURSIVE DownloadedUrls(_)
DownloadedUrls(calls) ==
    IF calls = <<>> THEN <<>>
    ELSE LET rest == DownloadedUrls(SubSeq(calls, 1, Len(calls) - 1))
             last == calls[Len(calls)]
         IN IF last.op = "download" THEN Append(rest, last.url) ELSE rest

\* C10: in a read_article call with an accepted list, entry i of the result
\* list carries url i and is an error record exactly when the download or
\* the parse of url i threw, and otherwise is the article of url i; no
\* failure ends the call: it returns the list, one entry per url, and every
\* url was downloaded, in input order.
C10_PerUrlIsolation ==
    (InFetch /\ ~NoUrls(urls) /\ ~TooManyUrls(urls)) =>
        /\ \A i \in 1..Len(FetchEntries) :
            LET entry == FetchEntries[i] IN
            /\ "url" \in DOMAIN entry
            /\ entry.url = urls[i]
            /\ ExactlyOne(entry, "text", "error")
            /\ ("error" \in DOMAIN entry) <=> (i \in threw)
            /\ ("text" \in DOMAIN entry) =>
                    entry = ArticleResult(urls[i], ArticleOf(urls[i]))
        /\ DownloadedUrls(article_calls) = SubSeq(urls, 1, Downloads)
        /\ pc = "returned" =>
            /\ response.kind = "json"
            /\ Len(response.body) = Len(urls)
            /\ Downloads = Len(urls)

\* C10 witness: a returned list in which a url failed and a later url of
\* the same list was read
C10_Witness ==
    /\ InFetch
    /\ pc = "returned"
    /\ response.kind = "json"
    /\ \E i \in threw : \E j \in (i + 1)..Len(urls) :
            /\ j \notin threw
            /\ urls[j] # urls[i]

\* C11: a delegated fetch never has more children than urls and has exactly
\* one child per url once it awaits them; the parent is resumed at most once,
\* and whenever it has been resumed every one of its children is terminal.
C11_ResumedOnlyAfterAllChildren ==
    /\ Len(children) <= Len(durls)
    /\ dphase \in {"AwaitingChildren", "Aggregated"} =>
            Len(children) = Len(durls)
    /\ (resumed > 0 \/ dphase = "Aggregated") =>
            /\ resumed = 1
            /\ dphase = "Aggregated"
            /\ \A i \in 1..Len(durls) : Terminal(children[i])

\* C11 witness: the parent of three children was resumed after the first
\* failed and the others succeeded
C11_Witness ==
    /\ dphase = "Aggregated"
    /\ resumed = 1
    /\ Len(durls) = 3
    /\ children = <<"failure", "success", "success">>

\* C12: once the host canceled the parent of a delegated fetch, every child
\* that is not terminal is marked for cancellation and the parent has not
\* been and is not resumed, whatever its children do afterwards.
C12_CanceledNeverResumed ==
    canceled =>
        /\ resumed = 0
        /\ dphase # "Aggregated"
        /\ aggregated = <<>>
        /\ Outstanding(children) \subseteq cancel_marked

\* C12 witness: the parent was canceled while children were outstanding and
\* all of them have reached a terminal state since
C12_Witness ==
    /\ canceled
    /\ dphase = "AwaitingChildren"
    /\ Len(durls) >= 2
    /\ Cardinality(cancel_marked) >= 2
    /\ AllTerminal(children)
    /\ resumed = 0

\* the active call is a create_research_report call
InSubmit == tool = "create_research_report"

\* the numbers of the sources of a report
SourceNumbers(r) == {r.sources[i].number : i \in 1..Len(r.sources)}

\* every citation of every finding is the number of a source of the report
CitationsOk(r) ==
    \A i \in 1..Len(r.key_findings) :
        \A j \in 1..Len(r.key_findings[i].citations) :
            r.key_findings[i].citations[j] \in SourceNumbers(r)

\* the source numbers are pairwise distinct and are exactly 1..len(sources)
NumberingOk(r) ==
    /\ \A i, j \in 1..Len(r.sources) :
            r.sources[i].number = r.sources[j].number => i = j
    /\ SourceNumbers(r) = 1..Len(r.sources)

\* source_count and confidence_level are as the schema of the report says
CountAndConfidenceOk(r) ==
    /\ r.source_count = Len(r.sources)
    /\ r.confidence_level \in {"high", "medium", "low"}

\* the reports held by the document store
StoredReports == {store[p].research_report : p \in DOMAIN store}

\* C13: no report with a citation that is not one of its source numbers
\* reaches the document store: its Submit makes no pdoc_create call and
\* returns SchemaViolation; a report whose citations are all source numbers
\* and that was confirmed is in the store.
C13_CitationIntegrity ==
    /\ \A r \in StoredReports : CitationsOk(r)
    /\ (InSubmit /\ ~CitationsOk(report)) =>
            /\ pdoc_calls = <<>>
            /\ pc = "returned"
            /\ response.kind = "SchemaViolation"
    /\ (InSubmit /\ response.kind = "created") =>
            /\ path \in DOMAIN store
            /\ store[path] = research_report_doc

\* C14: every report in the document store numbers its sources 1..n without
\* duplicate or gap; a Submit of a report numbered otherwise writes nothing.
C14_SourceNumbering ==
    /\ \A r \in StoredReports : NumberingOk(r)
    /\ (InSubmit /\ ~NumberingOk(report)) => pdoc_calls = <<>>

\* C15: every report in the document store has source_count = len(sources)
\* and a confidence_level of high, medium or low; a Submit of a report
\* violating either writes nothing.
C15_CountAndConfidence ==
    /\ \A r \in StoredReports : CountAndConfidenceOk(r)
    /\ (InSubmit /\ ~CountAndConfidenceOk(report)) => pdoc_calls = <<>>

\* C16: the meta of every document built or stored is the one the handler
\* stamped: created_at is a reading of the clock and created_by is the bot,
\* whatever keys the submitted report carries.
C16_StampedMetadata ==
    /\ \A r \in StoredReports :
            /\ r.meta.created_at \in 1..now
            /\ r.meta.created_by = "deep_research"
    /\ (InSubmit /\ pc \in {"pdoc_create", "returned"}) =>
            research_report_doc.research_report.meta = Meta(now)

\* the closed set of failure categories
ErrorKinds ==
    {"http_404", "http_403", "timeout", "connection_error", "ssl_error",
     "unknown_error"}

\* the category of each message the collaborators raise here
ExpectedKind(message) ==
    IF message = "403 Forbidden" THEN "http_403" ELSE "unknown_error"

\* C17: every failed fetch is reported with an error_kind drawn from the
\* closed set of six categories, the one its message classifies to, and the
\* raw message is kept next to it.
C17_FailedFetchClassified ==
    InFetch =>
        \A i \in 1..Len(FetchEntries) :
            LET entry == FetchEntries[i] IN
            (i \in threw) =>
                /\ "error" \in DOMAIN entry
                /\ entry.error \in ErrorMessages
                /\ "error_kind" \in DOMAIN entry
                /\ entry.error_kind \in ErrorKinds
                /\ entry.error_kind = ExpectedKind(entry.error)

Parses ==
    Cardinality({k \in 1..Len(article_calls) : article_calls[k].op = "parse"})

\* C18: within one call no query and no URL is sent to its provider twice:
\* every request made is either still in flight or has produced its one
\* entry, a failed item included, so there are never more requests than
\* items and the k-th request is for the k-th item.
C18_NoRetry ==
    /\ InSearch =>
        /\ Len(ddgs_calls) = Len(SearchEntries) + Cardinality(inflight)
        /\ Len(ddgs_calls) <= Len(queries)
        /\ \A k \in 1..Len(ddgs_calls) : ddgs_calls[k].query = queries[k]
    /\ InFetch =>
        /\ Downloads = Len(FetchEntries) + Cardinality(inflight)
        /\ Downloads <= Len(urls)
        /\ Parses <= Downloads
        /\ DownloadedUrls(article_calls) = SubSeq(urls, 1, Downloads)

\* a call whose first query failed and whose later query was still sent,
\* each exactly once
C18_Witness ==
    /\ InSearch
    /\ pc = "returned"
    /\ Len(queries) >= 2
    /\ 1 \in threw
    /\ Len(ddgs_calls) = Len(queries)
    /\ "error" \in DOMAIN response.body[1]

\* the recency code the provider is to receive for a date_filter argument
\* under a setup: the argument when one is passed, the configured default
\* otherwise, "any" when none is configured
ExpectedTimelimit(df, st) ==
    LET passed == df # None /\ df # ""
        effective == IF passed THEN df
                     ELSE IF st.date_range = None THEN "any"
                     ELSE st.date_range
    IN  CASE effective = "last_week" -> "w"
          [] effective = "last_month" -> "m"
          [] effective = "last_year" -> "y"
          [] OTHER -> None

\* C19: every provider request of a call carries the recency code of the
\* effective filter: w, m or y for last_week, last_month, last_year, and no
\* code for any other value, an explicit "any" included.
C19_RecencyCode ==
    InSearch =>
        \A k \in 1..Len(ddgs_calls) :
            ddgs_calls[k].timelimit = ExpectedTimelimit(date_filter, setup)

\* an explicit "any" over a configured default of last_week: no code is sent
C19_Witness ==
    /\ InSearch
    /\ date_filter = "any"
    /\ setup.date_range = "last_week"
    /\ Len(ddgs_calls) = 2
    /\ \A k \in 1..2 : ddgs_calls[k].timelimit = None

\* C20: every provider request carries the region wt-wt when the configured
\* language is unset or en, and <lang>-<lang> otherwise.
C20_RegionCode ==
    InSearch =>
        \A k \in 1..Len(ddgs_calls) :
            ddgs_calls[k].region =
                IF setup.research_language \in {None, "", "en"}
                THEN <<"wt-wt">>
                ELSE <<setup.research_language, "-", setup.research_language>>

\* a call under the language es whose requests carry es-es
C20_Witness ==
    /\ InSearch
    /\ setup.research_language = "es"
    /\ Len(ddgs_calls) >= 1
    /\ \A k \in 1..Len(ddgs_calls) : ddgs_calls[k].region = <<"es", "-", "es">>

\* C21: no step of a Search, Fetch or Submit call, a call rejected by input
\* validation included, changes a piece of engine state shared between calls
\* other than budget_used: the setup and the per-thread timer entries stay
\* what they were.
C21_OnlyBudgetChanges ==
    [][/\ setup' = setup
       /\ research_start_times' = research_start_times]_vars

\* the transitions of the phase of a dispatched call
PhaseTransitions ==
    {<<"Dispatched", "AwaitingChildren">>, <<"AwaitingChildren", "Aggregated">>}

\* the aggregated list has one FetchResult per url, in the order of the urls,
\* a success for a child that succeeded and an error record for one that
\* failed
AggregatedMatches ==
    /\ Len(aggregated) = Len(durls)
    /\ \A i \in 1..Len(durls) :
        /\ aggregated[i].url = durls[i]
        /\ children[i] = "success" =>
                aggregated[i] = ArticleResult(durls[i], ArticleOf(durls[i]))
        /\ children[i] = "failure" =>
                /\ "error_kind" \in DOMAIN aggregated[i]
                /\ "text" \notin DOMAIN aggregated[i]

\* C22: a dispatched delegated fetch changes phase only from Dispatched to
\* AwaitingChildren and from AwaitingChildren to Aggregated; with children
\* that all terminate it reaches Aggregated unless it is canceled; and
\* the aggregated list then has exactly one result per url, in input order,
\* each matching the outcome of its child.
C22_DelegatedStateMachine ==
    /\ [][(dphase \in {"Dispatched", "AwaitingChildren", "Aggregated"}
            /\ dphase' # dphase) => <<dphase, dphase'>> \in PhaseTransitions]_vars
    /\ [](dphase = "Aggregated" => AggregatedMatches)
    /\ (dphase = "Dispatched") ~> (dphase = "Aggregated" \/ canceled)

\* C22 witness: a call of two urls is aggregated after its first child
\* succeeded and its second failed
C22_Witness ==
    /\ dphase = "Aggregated"
    /\ children = <<"success", "failure">>
    /\ Len(aggregated) = 2
    /\ "text" \in DOMAIN aggregated[1]
    /\ "error_kind" \in DOMAIN aggregated[2]

\* Slack is configured with a notification channel
NotificationsConfigured ==
    Slack(setup) /\ Truthy(setup.SLACK_NOTIFICATION_CHANNEL)

\* C23: with Slack and a notification channel configured, the handler of an
\* assistant message that carries a create_research_report tool call ends
\* having posted a completion notification to that channel; without Slack
\* or without the channel nothing is ever posted; and an exception never
\* leaves the handler once it has started posting.
C23_CompletionNotified ==
    /\ (hpc = "done" /\ NotificationsConfigured
        /\ msg.ftm_role = "assistant" /\ HasReportCall(msg)) =>
            /\ posted
            /\ slack_posts[Len(slack_posts)].channel_name =
                    setup.SLACK_NOTIFICATION_CHANNEL
    /\ ~NotificationsConfigured => slack_posts = <<>>
    /\ hpc = "raised" => ~posted

\* the step is the entry of a web_research call
WebResearchCalled == pc = "idle" /\ pc' # "idle" /\ tool' = "web_research"

\* C24: an entry of research_start_times is never changed or removed; a
\* web_research call, valid or rejected, adds the entry of its own thread
\* with the time of the call if the thread has none, and touches no other
\* entry; no other step writes the dict.
C24_StartTimeWrittenOnce ==
    [][/\ \A t \in DOMAIN research_start_times :
            /\ t \in DOMAIN research_start_times'
            /\ research_start_times'[t] = research_start_times[t]
       /\ WebResearchCalled =>
            /\ DOMAIN research_start_times' =
                    (DOMAIN research_start_times) \cup {fcall_ft_id'}
            /\ fcall_ft_id' \notin DOMAIN research_start_times =>
                    research_start_times'[fcall_ft_id'] = now'
       /\ ~WebResearchCalled =>
            research_start_times' = research_start_times]_vars

\* C24 witness: the second call of thread ft1, a rejected one, was made at
\* time 2 and the entry of ft1 still holds time 1
C24_Witness ==
    /\ InSearch
    /\ fcall_ft_id = "ft1"
    /\ now = 2
    /\ response.kind = "NoQueries"
    /\ DOMAIN research_start_times = {"ft1"}
    /\ research_start_times["ft1"] = 1

====
